---- MODULE Spec2Model ----
(***************************************************************************)
(* A model of the AccessGrid JavaScript SDK (src/src/index.js): the client *)
(* constructor, the signed request pipeline BaseApi.request with           *)
(* BaseApi._generateSignature, and the resource-client operations that     *)
(* funnel through it.                                                      *)
(*                                                                         *)
(* Text that the code takes apart (paths, URLs, payloads) is a sequence of *)
(* atoms: an atom is a delimiter character ("/", "?", "{", ...) or a word  *)
(* that holds no delimiter.  Error messages, which the code only builds by *)
(* concatenation, are TLA+ strings.                                        *)
(***************************************************************************)
EXTENDS Integers, Sequences, FiniteSets, TLC

VARIABLES client, ctorArgs, ctorError, calls

vars == <<client, ctorArgs, ctorError, calls>>

---------------------------------------------------------------------------
(* Bounds of the model                                                     *)

\* longest path, in atoms, that a direct caller of request() passes
MaxPathLen == 3

\* number of bytes of the digest the signing primitive returns
DigestLen == 2

---------------------------------------------------------------------------
(* JavaScript values                                                       *)

\* the value undefined, where a text is expected
Undefined == <<"<undefined>">>

\* the value null, where a text is expected
Null == <<"<null>">>

\* JavaScript truthiness of a text-or-null value: if (resourceId), !accountId
Truthy(v) == v # Null /\ v # Undefined /\ v # <<>>

Q == "\""

\* an absent options.body (undefined; null and '' behave alike in request)
NoBody == [present |-> FALSE, entries |-> <<>>]

ObjectBody(entries) == [present |-> TRUE, entries |-> entries]

\* Object.keys(body).length
KeysLength(body) == Len(body.entries)

RECURSIVE JoinEntries(_)
\* the members of a serialized object: a key whose value is undefined is
\* left out, the others are "key":"value" separated by commas
JoinEntries(entries) ==
    IF entries = <<>> THEN <<>>
    ELSE LET e == Head(entries)
             rest == JoinEntries(Tail(entries))
         IN IF e.v = Undefined THEN rest
            ELSE <<Q, e.k, Q, ":", Q>> \o e.v \o <<Q>>
                 \o (IF rest = <<>> THEN <<>> ELSE <<",">> \o rest)

\* JSON.stringify of an object whose values are texts or undefined
JSONStringify(entries) == <<"{">> \o JoinEntries(entries) \o <<"}">>

\* one atom under encodeURIComponent: reserved characters are percent-encoded
\* (the percent sign of an escape that is already there too), words of
\* unreserved characters are left as they are
EncodeAtom(a) ==
    CASE a = "{" -> "%7B"
      [] a = "}" -> "%7D"
      [] a = Q -> "%22"
      [] a = ":" -> "%3A"
      [] a = "," -> "%2C"
      [] a = "/" -> "%2F"
      [] a = "?" -> "%3F"
      [] a = "=" -> "%3D"
      [] a = "&" -> "%26"
      [] a = "[" -> "%5B"
      [] a = "]" -> "%5D"
      [] a = "%5B" -> "%255B"
      [] a = "%5D" -> "%255D"
      [] OTHER -> a

encodeURIComponent(s) == [i \in 1..Len(s) |-> EncodeAtom(s[i])]

\* an Error object: its class and its message
Err(kind, message) == [kind |-> kind, message |-> message]

NoError == Err("none", "")

\* error instanceof AccessGridError (AuthenticationError extends it)
IsAccessGridError(e) == e.kind \in {"AccessGridError", "AuthenticationError"}

---------------------------------------------------------------------------
(* class AccessGrid and the BaseApi constructor                            *)

DefaultBaseUrl == <<"https:", "/", "/", "api.accessgrid.com">>

\* the base URL kept as it was passed
StripTrailingSlashNever(baseUrl) == baseUrl

\* baseUrl.replace(/\/$/, ''): one trailing slash, if any, is removed
StripTrailingSlash(baseUrl) ==
    IF Len(baseUrl) > 0 /\ baseUrl[Len(baseUrl)] = "/"
    THEN SubSeq(baseUrl, 1, Len(baseUrl) - 1)
    ELSE baseUrl

\* new BaseApi(accountId, secretKey, baseUrl); the two sub-classes only call super
BaseApi(accountId, secretKey, baseUrl) ==
    [accountId |-> accountId,
     secretKey |-> secretKey,
     baseUrl |-> StripTrailingSlash(baseUrl),
     version |-> <<"1.1.0">>]

NoApi == [accountId |-> Undefined, secretKey |-> Undefined,
          baseUrl |-> Undefined, version |-> Undefined]

NoClient == [made |-> FALSE, accessCards |-> NoApi, console |-> NoApi]

\* ConstructorError with the two checks in the other order
ConstructorErrorKeyFirst(accountId, secretKey) ==
    IF ~Truthy(secretKey) THEN Err("Error", "Secret Key is required")
    ELSE IF ~Truthy(accountId) THEN Err("Error", "Account ID is required")
    ELSE NoError

\* the error the AccessGrid constructor throws for its arguments, if any
ConstructorError(accountId, secretKey) ==
    IF ~Truthy(accountId) THEN Err("Error", "Account ID is required")
    ELSE IF ~Truthy(secretKey) THEN Err("Error", "Secret Key is required")
    ELSE NoError

\* options.baseUrl || 'https://api.accessgrid.com'
OptionsBaseUrl(optBaseUrl) ==
    IF Truthy(optBaseUrl) THEN optBaseUrl ELSE DefaultBaseUrl

\* the object new AccessGrid(accountId, secretKey, {baseUrl}) builds
AccessGrid(accountId, secretKey, optBaseUrl) ==
    LET baseUrl == OptionsBaseUrl(optBaseUrl)
    IN [made |-> TRUE,
        accessCards |-> BaseApi(accountId, secretKey, baseUrl),
        console |-> BaseApi(accountId, secretKey, baseUrl)]

---------------------------------------------------------------------------
(* BaseApi.request: the payload resolver                                   *)

\* options.method || 'GET'
Method(rawMethod) == IF rawMethod = "" THEN "GET" ELSE rawMethod

RECURSIVE SplitFrom(_, _, _)
\* String.prototype.split on one separator atom: cur is the piece being read
SplitFrom(s, sep, cur) ==
    IF s = <<>> THEN <<cur>>
    ELSE IF Head(s) = sep THEN <<cur>> \o SplitFrom(Tail(s), sep, <<>>)
    ELSE SplitFrom(Tail(s), sep, Append(cur, Head(s)))

Split(s, sep) == SplitFrom(s, sep, <<>>)

\* path.split('/') without the filter: empty pieces are kept
PartsUnfiltered(path) == Split(path, "/")

\* path.split('/').filter(part => part)
Parts(path) == SelectSeq(Split(path, "/"), LAMBDA part : part # <<>>)

ActionWords == {<<"suspend">>, <<"resume">>, <<"unlink">>, <<"delete">>}

\* !options.body || Object.keys(options.body).length === 0
BodyAbsentOrEmpty(body) == ~body.present \/ KeysLength(body) = 0

\* ResourceId with the id extracted for every GET and every POST
ResourceIdAnyPost(method, path, body) ==
    IF method = "GET" \/ method = "POST"
    THEN LET parts == Parts(path)
         IN IF Len(parts) >= 2
            THEN IF parts[Len(parts)] \in ActionWords
                 THEN parts[Len(parts) - 1]
                 ELSE parts[Len(parts)]
            ELSE Null
    ELSE Null

\* the resource id request() extracts from the path, or null
ResourceId(method, path, body) ==
    IF method = "GET" \/ (method = "POST" /\ BodyAbsentOrEmpty(body))
    THEN LET parts == Parts(path)
         IN IF Len(parts) >= 2
            THEN IF parts[Len(parts)] \in ActionWords
                 THEN parts[Len(parts) - 1]
                 ELSE parts[Len(parts)]
            ELSE Null
    ELSE Null

\* the payload request() signs and hands to fetch (sigPayload = payload)
Payload(method, body, resourceId) ==
    IF (method = "POST" /\ ~body.present) \/ method = "GET"
    THEN IF Truthy(resourceId)
         THEN JSONStringify(<<[k |-> "id", v |-> resourceId]>>)
         ELSE <<"{", "}">>
    ELSE IF body.present THEN JSONStringify(body.entries) ELSE <<>>

\* finalUrl.includes('?')
Includes(s, a) == \E i \in 1..Len(s) : s[i] = a

\* the URL handed to fetch
FinalUrl(url, method, body, resourceId) ==
    IF (method = "GET" \/ (method = "POST" /\ ~body.present)) /\ Truthy(resourceId)
    THEN LET separator == IF Includes(url, "?") THEN "&" ELSE "?"
         IN url \o <<separator, "sig_payload", "=">>
            \o encodeURIComponent(JSONStringify(<<[k |-> "id", v |-> resourceId]>>))
    ELSE url

\* body: method !== 'GET' ? payload : undefined
FetchBody(method, payload) == IF method # "GET" THEN payload ELSE Undefined

---------------------------------------------------------------------------
(* BaseApi.request: headers                                                *)

HeaderNames == {"Content-Type", "X-ACCT-ID", "X-PAYLOAD-SIG", "User-Agent",
                "X-Request-Id", "x-acct-id"}

MandatoryHeaders == {"Content-Type", "X-ACCT-ID", "X-PAYLOAD-SIG", "User-Agent"}

\* a key the headers object does not have
Absent == <<"<absent>">>

\* options.headers || {}
NoHeaders == [h \in HeaderNames |-> Absent]

\* the four headers request() sets before it spreads the caller's
OwnHeaders(api, signature) ==
    [h \in HeaderNames |->
        CASE h = "Content-Type" -> <<"application/json">>
          [] h = "X-ACCT-ID" -> api.accountId
          [] h = "X-PAYLOAD-SIG" -> signature
          [] h = "User-Agent" -> <<"accessgrid.js @ v">> \o api.version
          [] OTHER -> Absent]

\* options.headers || own: the caller's headers replace the four
HeadersReplaced(api, signature, callerHeaders) ==
    IF callerHeaders = NoHeaders THEN OwnHeaders(api, signature) ELSE callerHeaders

\* { ...own, ...(options.headers || {}) }: a key the caller has wins
Headers(api, signature, callerHeaders) ==
    LET own == OwnHeaders(api, signature)
    IN [h \in HeaderNames |->
            IF callerHeaders[h] # Absent THEN callerHeaders[h] ELSE own[h]]

---------------------------------------------------------------------------
(* BaseApi._generateSignature                                              *)

\* characters outside Latin-1, on which btoa throws
NonLatin1Atoms == {"<U+65E5>"}

BtoaError == Err("InvalidCharacterError", "Invalid character")

BtoaThrows(payload) == \E i \in 1..Len(payload) : payload[i] \in NonLatin1Atoms

\* btoa(payload): the base64 text of the payload
Btoa(payload) == <<"base64(">> \o payload \o <<")">>

\* every atom a key or a signed text can hold, in a fixed order
AtomTable ==
    <<"/", "?", "=", "&", "{", "}", Q, ":", ",", "[", "]", "base64(", ")", "|",
      "id", "v1", "key-cards", "console", "card-templates", "logs",
      "suspend", "resume", "unlink", "delete",
      "c1", "c2", "t1", "t2", "active", "mobile", "Ann", "e7",
      "template_id", "state", "filters", "%5B", "device", "%5D",
      "card_template_id", "employee_id", "full_name", "name", "platform",
      "secret-1", "undefined">>

Code(a) == CHOOSE i \in 1..Len(AtomTable) : AtomTable[i] = a

RECURSIVE WeightedSum(_, _)
WeightedSum(s, i) ==
    IF i > Len(s) THEN 0 ELSE i * Code(s[i]) + WeightedSum(s, i + 1)

\* crypto.subtle.sign('HMAC', key, data): the digest, as bytes.  A keyed
\* function of the key and the data; DigestLen bytes stand for SHA-256's 32.
HMAC(keyData, data) ==
    LET sum == WeightedSum(keyData \o <<"|">> \o data, 1)
    IN [k \in 1..DigestLen |-> (sum * (2 * k - 1) + 89 * (k - 1)) % 256]

HexDigits == <<"0", "1", "2", "3", "4", "5", "6", "7",
               "8", "9", "a", "b", "c", "d", "e", "f">>

\* b.toString(16): one digit below 16, two from 16 on
ToString16(b) ==
    IF b < 16 THEN <<HexDigits[b + 1]>>
    ELSE <<HexDigits[(b \div 16) + 1], HexDigits[(b % 16) + 1]>>

\* the digits of b.toString(16) without padding
PadStart2None(s) == s

\* s.padStart(2, '0')
PadStart2(s) == IF Len(s) < 2 THEN <<"0">> \o s ELSE s

RECURSIVE ToHex(_)
\* Array.from(bytes).map(b => b.toString(16).padStart(2, '0')).join('')
ToHex(bytes) ==
    IF bytes = <<>> THEN <<>>
    ELSE PadStart2(ToString16(Head(bytes))) \o ToHex(Tail(bytes))

\* _generateSignature without its try/catch: the primitive's error escapes
CatchSignatureRethrow(error) == error

\* the catch block of _generateSignature
CatchSignature(error) ==
    Err("AccessGridError", "Failed to generate signature: " \o error.message)

---------------------------------------------------------------------------
(* BaseApi.request: the response                                           *)

\* response.ok
\* response.ok taken to hold for every status
OkAlways(status) == TRUE

Ok(status) == status >= 200 /\ status <= 299

\* a parsed JSON value: null, a number, or an object with an optional
\* message member and an optional keys member
Json(kind, hasMessage, message, keys) ==
    [kind |-> kind, hasMessage |-> hasMessage, message |-> message, keys |-> keys]

NoData == Json("none", FALSE, "", "absent")

\* StatusError with the body's message passed to AuthenticationError
StatusErrorBodyMessage(status, data) ==
    IF status = 401
    THEN Err("AuthenticationError",
             IF data.kind = "object" /\ data.hasMessage /\ data.message # ""
             THEN data.message ELSE "Invalid credentials")
    ELSE IF status = 402 THEN Err("AccessGridError", "Insufficient account balance")
    ELSE IF data.kind = "null"
         THEN Err("TypeError", "Cannot read properties of null (reading 'message')")
    ELSE Err("AccessGridError",
             IF data.hasMessage /\ data.message # ""
             THEN data.message ELSE "Request failed")

\* StatusError without the branch for 402
StatusErrorNo402(status, data) ==
    IF status = 401 THEN Err("AuthenticationError", "Invalid credentials")
    ELSE IF data.kind = "null"
         THEN Err("TypeError", "Cannot read properties of null (reading 'message')")
    ELSE Err("AccessGridError",
             IF data.hasMessage /\ data.message # ""
             THEN data.message ELSE "Request failed")

\* StatusError with the fallback message for every other status
StatusErrorNoMessage(status, data) ==
    IF status = 401 THEN Err("AuthenticationError", "Invalid credentials")
    ELSE IF status = 402 THEN Err("AccessGridError", "Insufficient account balance")
    ELSE Err("AccessGridError", "Request failed")

\* what the status check of request() throws for a response that is not ok
StatusError(status, data) ==
    IF status = 401 THEN Err("AuthenticationError", "Invalid credentials")
    ELSE IF status = 402 THEN Err("AccessGridError", "Insufficient account balance")
    ELSE IF data.kind = "null"
         THEN Err("TypeError", "Cannot read properties of null (reading 'message')")
    ELSE Err("AccessGridError",
             IF data.hasMessage /\ data.message # ""
             THEN data.message ELSE "Request failed")

\* the catch block as it was before the typed errors: everything is wrapped
CatchRequestWrapAll(error) ==
    Err("AccessGridError", "API request failed: " \o error.message)

\* the catch block of request()
CatchRequest(error) ==
    IF IsAccessGridError(error) THEN error
    ELSE Err("AccessGridError", "API request failed: " \o error.message)

---------------------------------------------------------------------------
(* The resource clients: response-to-model mapping                         *)

ModelOps == {"provision", "issue", "update", "suspend", "resume", "unlink",
             "delete", "createTemplate", "updateTemplate", "readTemplate"}

\* what new AccessCard(response), new Template(response) or the mapping of
\* list() throws for the value request() returned, if anything
ModelError(op, data) ==
    IF op \in ModelOps
    THEN IF data.kind = "null"
         THEN Err("TypeError", "Cannot read properties of null (reading 'id')")
         ELSE NoError
    ELSE IF op = "list"
    THEN IF data.kind = "null"
         THEN Err("TypeError", "Cannot read properties of null (reading 'keys')")
         ELSE IF data.kind # "object" \/ data.keys = "absent" THEN NoError
         ELSE IF data.keys = "notArray"
         THEN Err("TypeError", "(response.keys || []).map is not a function")
         ELSE IF data.keys = "arrayWithNull"
         THEN Err("TypeError", "Cannot read properties of null (reading 'id')")
         ELSE NoError
    ELSE NoError

---------------------------------------------------------------------------
(* State                                                                   *)

\* client    : the AccessGrid object, once constructed
\* ctorArgs  : the arguments of the last call of the constructor
\* ctorError : what the last call of the constructor threw, if anything
\* calls     : the calls of request() in flight or finished, one per slot;
\*             beside the locals of request(), a call records the operation
\*             and the identifier it was made for (op, target), how often
\*             _generateSignature was entered (signerCalls), what was handed
\*             to importKey, sign and fetch (keyData, signedData, sent), and
\*             what was thrown and returned

CallIds == {1, 2}

NoResult == [kind |-> "none", data |-> NoData]

IdleCall ==
    [pc |-> "idle", op |-> "none", api |-> "none", target |-> Null,
     path |-> <<>>, rawMethod |-> "", body |-> NoBody, callerHeaders |-> NoHeaders,
     method |-> "", url |-> <<>>, resourceId |-> Null,
     payload |-> <<>>, sigPayload |-> <<>>,
     signerCalls |-> 0, keyData |-> <<>>, signedData |-> <<>>, signature |-> <<>>,
     sent |-> <<>>, status |-> 0, data |-> NoData,
     signCause |-> NoError, thrown |-> NoError,
     requestResult |-> NoData, requestError |-> NoError,
     result |-> NoResult, error |-> NoError]

Api(name) == IF name = "console" THEN client.console ELSE client.accessCards

NoArgs == [called |-> FALSE, accountId |-> Undefined, secretKey |-> Undefined,
           baseUrl |-> Undefined]

Init ==
    /\ client = NoClient
    /\ ctorArgs = NoArgs
    /\ ctorError = NoError
    /\ calls = [i \in CallIds |-> IdleCall]

---------------------------------------------------------------------------
(* Inputs                                                                  *)

AccountIds == {Undefined, <<>>, <<"acct-1">>}

SecretKeys == {Undefined, <<>>, <<"secret-1">>}

BaseUrls == {Undefined,
             <<"https:", "/", "/", "custom.api.com", "/">>,
             <<"https:", "/", "/", "custom.api.com", "/", "/">>}

PathAtoms == {"/", "key-cards", "c1", "suspend"}

\* every text of at most MaxPathLen atoms
Paths == UNION {[1..n -> PathAtoms] : n \in 0..MaxPathLen}

RawMethods == {"", "GET", "POST", "PUT", "PATCH", "DELETE"}

Bodies == {NoBody, ObjectBody(<<>>), ObjectBody(<<[k |-> "full_name", v |-> <<"Ann">>]>>)}

\* bodies whose serialization is special: a member that is undefined, a
\* character btoa rejects
OddBodies == {ObjectBody(<<[k |-> "full_name", v |-> Undefined]>>),
              ObjectBody(<<[k |-> "full_name", v |-> <<"<U+65E5>">>]>>),
              ObjectBody(<<[k |-> "employee_id", v |-> <<"e7">>],
                           [k |-> "full_name", v |-> <<"Ann">>]>>)}

With(h, v) == [NoHeaders EXCEPT ![h] = v]

\* options.headers of a caller that sets headers
CallerHeaders ==
    {With("X-Request-Id", <<"r1">>),
     With("x-acct-id", <<"other">>),
     With("X-ACCT-ID", <<"other">>),
     With("X-PAYLOAD-SIG", Undefined),
     With("Content-Type", <<"text/plain">>),
     [With("User-Agent", <<"mine">>) EXCEPT !["X-PAYLOAD-SIG"] = <<"00">>]}

\* card ids: two plain ones, the empty text and one that holds a slash
CardIds == {<<"c1">>, <<"c2">>, <<>>, <<"c1", "/", "c2">>}

TemplateIds == {<<"t1">>, <<"t2">>}

FullNames == {<<"Ann">>, <<"<U+65E5>">>}

CardStates == {Null, <<"active">>}

Devices == {Undefined, <<"mobile">>}

\* what importKey, sign, fetch and response.json() reject with
ImportKeyErrors == {Err("DataError", "Invalid key length")}

SignErrors == {Err("OperationError", "The operation failed")}

FetchErrors == {Err("TypeError", "fetch failed"),
                Err("AbortError", "This operation was aborted")}

JsonErrors == {Err("SyntaxError", "Unexpected end of JSON input")}

Statuses == {200, 304, 400, 401, 402}

JsonValues ==
    {Json("null", FALSE, "", "absent"), Json("number", FALSE, "", "absent")}
    \cup {Json("object", FALSE, "", k) : k \in {"absent", "array", "arrayWithNull", "notArray"}}
    \cup {Json("object", TRUE, m, "absent") : m \in {"", "Invalid input"}}

---------------------------------------------------------------------------
(* new AccessGrid(accountId, secretKey, options)                           *)

Construct(accountId, secretKey, optBaseUrl) ==
    /\ ~client.made
    /\ ctorArgs' = [called |-> TRUE, accountId |-> accountId,
                    secretKey |-> secretKey, baseUrl |-> optBaseUrl]
    /\ ctorError' = ConstructorError(accountId, secretKey)
    /\ client' = IF ConstructorError(accountId, secretKey) = NoError
                 THEN AccessGrid(accountId, secretKey, optBaseUrl)
                 ELSE client
    /\ UNCHANGED calls

---------------------------------------------------------------------------
(* BaseApi.request, step by step: the code between two awaits is one step  *)

\* the call ends: thrown reaches the catch block of request(), which rejects
\* with requestError, and so does the resource-client operation awaiting it
Rejected(c, thrown) ==
    [c EXCEPT !.pc = "failed", !.thrown = thrown,
              !.requestError = CatchRequest(thrown), !.error = CatchRequest(thrown)]

\* a step of _generateSignature throws cause: its catch block wraps it
SigningFailed(c, cause) ==
    Rejected([c EXCEPT !.signCause = cause], CatchSignature(cause))

\* the call ends: request() returns data, which the operation maps to its model
Returned(c, data) ==
    IF ModelError(c.op, data) = NoError
    THEN [c EXCEPT !.pc = "done", !.requestResult = data,
                   !.result = [kind |-> c.op, data |-> data]]
    ELSE [c EXCEPT !.pc = "failed", !.requestResult = data,
                   !.error = ModelError(c.op, data)]

\* request(path, options) up to the first await, inside _generateSignature:
\* the payload is resolved, btoa is applied and importKey is called
Start(i, op, apiName, target, path, rawMethod, body, callerHeaders) ==
    /\ client.made
    /\ calls[i].pc = "idle"
    /\ LET api == Api(apiName)
           url == api.baseUrl \o path
           method == Method(rawMethod)
           resourceId == ResourceId(method, path, body)
           payload == Payload(method, body, resourceId)
           sigPayload == payload
           c == [IdleCall EXCEPT !.op = op, !.api = apiName, !.target = target,
                                 !.path = path, !.signerCalls = 1,
                                 !.rawMethod = rawMethod, !.body = body,
                                 !.callerHeaders = callerHeaders,
                                 !.method = method, !.url = url,
                                 !.resourceId = resourceId,
                                 !.payload = payload, !.sigPayload = sigPayload]
       IN calls' = [calls EXCEPT ![i] =
            IF BtoaThrows(sigPayload)
            THEN SigningFailed(c, BtoaError)
            ELSE [c EXCEPT !.pc = "importKey", !.keyData = api.secretKey]]
    /\ UNCHANGED <<client, ctorArgs, ctorError>>

\* importKey resolves: sign is called with the key and the base64 text
ImportKeyResolve(i) ==
    /\ calls[i].pc = "importKey"
    /\ calls' = [calls EXCEPT ![i].pc = "sign",
                              ![i].signedData = Btoa(calls[i].sigPayload)]
    /\ UNCHANGED <<client, ctorArgs, ctorError>>

ImportKeyReject(i, error) ==
    /\ calls[i].pc = "importKey"
    /\ calls' = [calls EXCEPT ![i] =
                    SigningFailed(calls[i], error)]
    /\ UNCHANGED <<client, ctorArgs, ctorError>>

\* the request handed to fetch once the signature is there
FetchCall(c, signature) ==
    [url |-> FinalUrl(c.url, c.method, c.body, c.resourceId),
     method |-> c.method,
     headers |-> Headers(Api(c.api), signature, c.callerHeaders),
     body |-> FetchBody(c.method, c.payload)]

\* SignResolve over a signing buffer shared by the calls of the client: the
\* data signed is what the first call in flight put there
SignResolveShared(i) ==
    /\ calls[i].pc = "sign"
    /\ LET signature == ToHex(HMAC(calls[i].keyData, calls[1].signedData))
       IN calls' = [calls EXCEPT ![i].pc = "fetch",
                                 ![i].signature = signature,
                                 ![i].sent = Append(calls[i].sent,
                                                    FetchCall(calls[i], signature))]
    /\ UNCHANGED <<client, ctorArgs, ctorError>>

\* sign resolves: the digest is rendered, the headers and the final URL are
\* built and fetch is called
SignResolve(i) ==
    /\ calls[i].pc = "sign"
    /\ LET signature == ToHex(HMAC(calls[i].keyData, calls[i].signedData))
       IN calls' = [calls EXCEPT ![i].pc = "fetch",
                                 ![i].signature = signature,
                                 ![i].sent = Append(calls[i].sent,
                                                    FetchCall(calls[i], signature))]
    /\ UNCHANGED <<client, ctorArgs, ctorError>>

SignReject(i, error) ==
    /\ calls[i].pc = "sign"
    /\ calls' = [calls EXCEPT ![i] =
                    SigningFailed(calls[i], error)]
    /\ UNCHANGED <<client, ctorArgs, ctorError>>

\* fetch resolves with a response: response.json() is called
FetchResolve(i, status) ==
    /\ calls[i].pc = "fetch"
    /\ calls' = [calls EXCEPT ![i].pc = "json", ![i].status = status]
    /\ UNCHANGED <<client, ctorArgs, ctorError>>

FetchReject(i, error) ==
    /\ calls[i].pc = "fetch"
    /\ calls' = [calls EXCEPT ![i] = Rejected(calls[i], error)]
    /\ UNCHANGED <<client, ctorArgs, ctorError>>

\* response.json() resolves: the status is checked and the call ends
JsonResolve(i, data) ==
    /\ calls[i].pc = "json"
    /\ LET c == [calls[i] EXCEPT !.data = data]
       IN calls' = [calls EXCEPT ![i] =
            IF Ok(c.status) THEN Returned(c, data)
            ELSE Rejected(c, StatusError(c.status, data))]
    /\ UNCHANGED <<client, ctorArgs, ctorError>>

\* response.json() rejects: the body is not JSON
JsonReject(i, error) ==
    /\ calls[i].pc = "json"
    /\ calls' = [calls EXCEPT ![i] = Rejected(calls[i], error)]
    /\ UNCHANGED <<client, ctorArgs, ctorError>>

\* the caller drops the settled promise; the next call starts afresh
Forget(i) ==
    /\ calls[i].pc \in {"done", "failed"}
    /\ calls' = [calls EXCEPT ![i] = IdleCall]
    /\ UNCHANGED <<client, ctorArgs, ctorError>>

---------------------------------------------------------------------------
(* The resource clients: each operation builds a path and options and      *)
(* calls request().  Parameters the caller leaves out are undefined.       *)

E(k, v) == [k |-> k, v |-> v]

\* `${value}` in a template literal
Interpolate(v) == IF v = Undefined THEN <<"undefined">> ELSE v

KeyCardsPath == <<"/", "v1", "/", "key-cards">>

TemplatesPath == <<"/", "v1", "/", "console", "/", "card-templates">>

provision(i, op, cardTemplateId, fullName) ==
    Start(i, op, "accessCards", Null, KeyCardsPath, "POST",
          ObjectBody(<<E("card_template_id", cardTemplateId),
                       E("employee_id", Undefined),
                       E("tag_id", Undefined),
                       E("allow_on_multiple_devices", Undefined),
                       E("full_name", fullName),
                       E("email", Undefined),
                       E("phone_number", Undefined),
                       E("classification", Undefined),
                       E("start_date", Undefined),
                       E("expiration_date", Undefined),
                       E("employee_photo", Undefined)>>),
          NoHeaders)

\* issue(params) is provision(params)
issue(i, cardTemplateId, fullName) == provision(i, "issue", cardTemplateId, fullName)

update(i, cardId, fullName) ==
    Start(i, "update", "accessCards", cardId,
          KeyCardsPath \o <<"/">> \o Interpolate(cardId),
          "PATCH",
          ObjectBody(<<E("employee_id", Undefined),
                       E("full_name", fullName),
                       E("classification", Undefined),
                       E("expiration_date", Undefined),
                       E("employee_photo", Undefined)>>),
          NoHeaders)

\* new URLSearchParams({template_id}) with state appended when it is truthy,
\* then toString()
ListQuery(templateId, state) ==
    <<"template_id", "=">> \o encodeURIComponent(Interpolate(templateId))
    \o (IF Truthy(state) THEN <<"&", "state", "=">> \o encodeURIComponent(state)
        ELSE <<>>)

list(i, templateId, state) ==
    Start(i, "list", "accessCards", templateId,
          KeyCardsPath \o <<"?">> \o ListQuery(templateId, state),
          "", NoBody, NoHeaders)

\* manage without method: 'POST', so that request() defaults to GET
manageNoMethod(i, cardId, action) ==
    Start(i, action, "accessCards", cardId,
          KeyCardsPath \o <<"/">> \o Interpolate(cardId) \o <<"/", action>>,
          "", NoBody, NoHeaders)

\* manage(cardId, action), reached through suspend, resume, unlink and delete
manage(i, cardId, action) ==
    Start(i, action, "accessCards", cardId,
          KeyCardsPath \o <<"/">> \o Interpolate(cardId) \o <<"/", action>>,
          "POST", NoBody, NoHeaders)

suspend(i, cardId) == manage(i, cardId, "suspend")

resume(i, cardId) == manage(i, cardId, "resume")

unlink(i, cardId) == manage(i, cardId, "unlink")

delete(i, cardId) == manage(i, cardId, "delete")

createTemplate(i, name) ==
    Start(i, "createTemplate", "console", Null, TemplatesPath, "POST",
          ObjectBody(<<E("name", name),
                       E("platform", Undefined),
                       E("use_case", Undefined),
                       E("protocol", Undefined),
                       E("allow_on_multiple_devices", Undefined),
                       E("watch_count", Undefined),
                       E("iphone_count", Undefined),
                       E("background_color", Undefined),
                       E("label_color", Undefined),
                       E("label_secondary_color", Undefined),
                       E("support_url", Undefined),
                       E("support_phone_number", Undefined),
                       E("support_email", Undefined),
                       E("privacy_policy_url", Undefined),
                       E("terms_and_conditions_url", Undefined)>>),
          NoHeaders)

updateTemplate(i, cardTemplateId, name) ==
    Start(i, "updateTemplate", "console", cardTemplateId,
          TemplatesPath \o <<"/">> \o Interpolate(cardTemplateId), "PUT",
          ObjectBody(<<E("name", name),
                       E("allow_on_multiple_devices", Undefined),
                       E("watch_count", Undefined),
                       E("iphone_count", Undefined),
                       E("support_url", Undefined),
                       E("support_phone_number", Undefined),
                       E("support_email", Undefined),
                       E("privacy_policy_url", Undefined),
                       E("terms_and_conditions_url", Undefined)>>),
          NoHeaders)

readTemplate(i, cardTemplateId) ==
    Start(i, "readTemplate", "console", cardTemplateId,
          TemplatesPath \o <<"/">> \o Interpolate(cardTemplateId),
          "", NoBody, NoHeaders)

\* the URLSearchParams of getEventLogs, as text: filters[device] is appended
\* when it is truthy
EventLogQuery(device) ==
    IF Truthy(device)
    THEN encodeURIComponent(<<"filters", "[", "device", "]">>) \o <<"=">>
         \o encodeURIComponent(device)
    ELSE <<>>

getEventLogs(i, op, cardTemplateId, device) ==
    Start(i, op, "console", cardTemplateId,
          TemplatesPath \o <<"/">> \o Interpolate(cardTemplateId)
          \o <<"/", "logs", "?">> \o EventLogQuery(device),
          "", NoBody, NoHeaders)

\* eventLog(params) is getEventLogs(params)
eventLog(i, cardTemplateId, device) == getEventLogs(i, "eventLog", cardTemplateId, device)

\* a direct call of request(path, options) on a sub-client
request(i, path, rawMethod, body, callerHeaders) ==
    Start(i, "request", "accessCards", Null, path, rawMethod, body, callerHeaders)

---------------------------------------------------------------------------
(* The specification: one call at a time on one client                     *)

Operation(i) ==
    \/ \E t \in TemplateIds, n \in FullNames : provision(i, "provision", t, n)
    \/ \E t \in TemplateIds, n \in FullNames : issue(i, t, n)
    \/ \E c \in CardIds, n \in FullNames : update(i, c, n)
    \/ \E t \in TemplateIds, st \in CardStates : list(i, t, st)
    \/ \E c \in CardIds : suspend(i, c)
    \/ \E c \in CardIds : resume(i, c)
    \/ \E c \in CardIds : unlink(i, c)
    \/ \E c \in CardIds : delete(i, c)
    \/ \E n \in FullNames : createTemplate(i, n)
    \/ \E t \in TemplateIds, n \in FullNames : updateTemplate(i, t, n)
    \/ \E t \in TemplateIds : readTemplate(i, t)
    \/ \E t \in TemplateIds, d \in Devices : getEventLogs(i, "getEventLogs", t, d)
    \/ \E t \in TemplateIds, d \in Devices : eventLog(i, t, d)

DirectRequest(i) ==
    \/ \E p \in Paths, m \in RawMethods \ {""}, b \in Bodies :
            request(i, p, m, b, NoHeaders)
    \/ \E m \in RawMethods, b \in OddBodies :
            request(i, KeyCardsPath \o <<"/", "c1">>, m, b, NoHeaders)
    \/ \E m \in {"GET", "POST"}, b \in Bodies, h \in CallerHeaders :
            request(i, KeyCardsPath \o <<"/", "c1">>, m, b, h)

Settle(i) ==
    \/ ImportKeyResolve(i)
    \/ \E e \in ImportKeyErrors : ImportKeyReject(i, e)
    \/ SignResolve(i)
    \/ \E e \in SignErrors : SignReject(i, e)
    \/ \E s \in Statuses : FetchResolve(i, s)
    \/ \E e \in FetchErrors : FetchReject(i, e)
    \/ \E d \in JsonValues : JsonResolve(i, d)
    \/ \E e \in JsonErrors : JsonReject(i, e)
    \/ Forget(i)

\* a call can start only in a free slot of a constructed client (the guard of
\* Start, stated once before the inputs are enumerated)
CanStart(i) == client.made /\ calls[i].pc = "idle"

Next ==
    \/ \E a \in AccountIds, k \in SecretKeys, u \in BaseUrls : Construct(a, k, u)
    \/ CanStart(1) /\ Operation(1)
    \/ CanStart(1) /\ DirectRequest(1)
    \/ Settle(1)

Spec == Init /\ [][Next]_vars

---------------------------------------------------------------------------
(* The specification of concurrent calls: two calls in flight on one       *)
(* client, their steps interleaved at the awaits                           *)

ConcBaseUrls == {Undefined, <<"https:", "/", "/", "custom.api.com", "/">>}

ConcCardIds == {<<"c1">>, <<"c2">>}

ConcPaths == {KeyCardsPath \o <<"/", "c1">>, <<"/", "key-cards">>}

ConcBodies == {NoBody, ObjectBody(<<>>)}

ConcStatuses == {200, 401}

ConcJsonValues == {Json("object", FALSE, "", "absent"),
                   Json("object", TRUE, "Invalid input", "absent")}

OperationConc(i) ==
    \/ \E c \in ConcCardIds : suspend(i, c)
    \/ \E c \in ConcCardIds : resume(i, c)
    \/ readTemplate(i, <<"t1">>)
    \/ provision(i, "provision", <<"t1">>, <<"Ann">>)

DirectRequestConc(i) ==
    \/ \E p \in ConcPaths, m \in {"GET", "POST"}, b \in ConcBodies :
            request(i, p, m, b, NoHeaders)
    \/ request(i, KeyCardsPath \o <<"/", "c1">>, "GET", NoBody,
               With("X-ACCT-ID", <<"other">>))

SettleConc(i) ==
    \/ ImportKeyResolve(i)
    \/ \E e \in ImportKeyErrors : ImportKeyReject(i, e)
    \/ SignResolve(i)
    \/ \E e \in SignErrors : SignReject(i, e)
    \/ \E s \in ConcStatuses : FetchResolve(i, s)
    \/ FetchReject(i, Err("TypeError", "fetch failed"))
    \/ \E d \in ConcJsonValues : JsonResolve(i, d)
    \/ \E e \in JsonErrors : JsonReject(i, e)
    \/ Forget(i)

NextConc ==
    \/ \E a \in AccountIds, k \in SecretKeys, u \in ConcBaseUrls : Construct(a, k, u)
    \/ \E i \in CallIds : CanStart(i) /\ OperationConc(i)
    \/ \E i \in CallIds : CanStart(i) /\ DirectRequestConc(i)
    \/ \E i \in CallIds : SettleConc(i)

SpecConc == Init /\ [][NextConc]_vars

---------------------------------------------------------------------------
(* Properties                                                              *)

Ended(c) == c.pc \in {"done", "failed"}

\* the response of the call was received and request() has settled
Answered(c) == Ended(c) /\ c.status # 0

\* the body of the response parsed as JSON
Parsed(c) == c.data.kind # "none"

\* request(), and the operation awaiting it, rejected with this error
RejectsWith(c, e) == c.pc = "failed" /\ c.requestError = e /\ c.error = e

ParseFailures ==
    {Err("AccessGridError", "API request failed: " \o e.message) : e \in JsonErrors}

\* C1 as stated: every call whose response has status 401 rejects with
\* AuthenticationError('Invalid credentials'), whatever the response body is.
C1_Original ==
    \A i \in CallIds :
        Answered(calls[i]) /\ calls[i].status = 401
        => RejectsWith(calls[i], Err("AuthenticationError", "Invalid credentials"))

\* C1 amended: a call whose response has status 401 rejects with
\* AuthenticationError('Invalid credentials') whenever the body parses as JSON,
\* whatever JSON value it is; when the body does not parse, the call rejects
\* with AccessGridError('API request failed: <parse error>').
C1_Unauthorized ==
    \A i \in CallIds :
        Answered(calls[i]) /\ calls[i].status = 401
        => IF Parsed(calls[i])
           THEN RejectsWith(calls[i], Err("AuthenticationError", "Invalid credentials"))
           ELSE calls[i].pc = "failed" /\ calls[i].requestError \in ParseFailures

C1_Witness ==
    \E i \in CallIds :
        /\ Answered(calls[i]) /\ calls[i].status = 401
        /\ calls[i].data = Json("object", TRUE, "Invalid input", "absent")
        /\ calls[i].error.kind = "AuthenticationError"

\* C2 as stated: every call whose response has status 402 rejects with a
\* generic AccessGridError whose message is 'Insufficient account balance'.
C2_Original ==
    \A i \in CallIds :
        Answered(calls[i]) /\ calls[i].status = 402
        => RejectsWith(calls[i], Err("AccessGridError", "Insufficient account balance"))

\* C2 amended: a call whose response has status 402 rejects with the generic
\* AccessGridError('Insufficient account balance') whenever the body parses as
\* JSON, whatever message it holds; when the body does not parse, the call
\* rejects with AccessGridError('API request failed: <parse error>').
C2_InsufficientBalance ==
    \A i \in CallIds :
        Answered(calls[i]) /\ calls[i].status = 402
        => IF Parsed(calls[i])
           THEN RejectsWith(calls[i],
                            Err("AccessGridError", "Insufficient account balance"))
           ELSE calls[i].pc = "failed" /\ calls[i].requestError \in ParseFailures

C2_Witness ==
    \E i \in CallIds :
        /\ Answered(calls[i]) /\ calls[i].status = 402
        /\ calls[i].data.hasMessage /\ calls[i].data.message = "Invalid input"
        /\ calls[i].error = Err("AccessGridError", "Insufficient account balance")

\* a response that is not ok and is neither 401 nor 402
OtherFailure(c) == Answered(c) /\ ~(c.status \in 200..299) /\ c.status \notin {401, 402}

\* C3 as stated: for a non-2xx status other than 401 and 402 the call rejects
\* with a generic AccessGridError whose message is the body's message field
\* when the field is present and 'Request failed' when it is not.
C3_Original ==
    \A i \in CallIds :
        OtherFailure(calls[i])
        => RejectsWith(calls[i],
                Err("AccessGridError",
                    IF calls[i].data.hasMessage THEN calls[i].data.message
                    ELSE "Request failed"))

\* C3 amended: for a non-2xx status other than 401 and 402 the call rejects
\* with a generic AccessGridError whose message is the body's message field
\* when the body is a JSON value other than null and the field is present and
\* not empty, 'Request failed' when the body is a JSON value other than null
\* whose message field is missing or empty, and 'API request failed: <cause>'
\* when the body is null or does not parse.
C3_OtherStatus ==
    \A i \in CallIds :
        OtherFailure(calls[i])
        => CASE ~Parsed(calls[i]) ->
                    calls[i].pc = "failed" /\ calls[i].requestError \in ParseFailures
             [] calls[i].data.kind = "null" ->
                    RejectsWith(calls[i],
                        Err("AccessGridError",
                            "API request failed: Cannot read properties of null (reading 'message')"))
             [] OTHER ->
                    RejectsWith(calls[i],
                        Err("AccessGridError",
                            IF calls[i].data.hasMessage /\ calls[i].data.message # ""
                            THEN calls[i].data.message ELSE "Request failed"))

C3_Witness ==
    \E i \in CallIds :
        /\ OtherFailure(calls[i]) /\ calls[i].status = 400
        /\ calls[i].data.hasMessage
        /\ calls[i].error = Err("AccessGridError", "Invalid input")

\* C4: what reaches the catch block of request() and is no AccessGridError
\* (a rejection of fetch, a body that is not JSON) is rethrown as
\* AccessGridError('API request failed: ' + its message); an AccessGridError
\* or AuthenticationError is rethrown as it is.
C4_CatchWraps ==
    \A i \in CallIds :
        calls[i].thrown # NoError
        => /\ calls[i].pc = "failed"
           /\ IF calls[i].thrown.kind \in {"AccessGridError", "AuthenticationError"}
              THEN calls[i].requestError = calls[i].thrown
              ELSE calls[i].requestError =
                     [kind |-> "AccessGridError",
                      message |-> "API request failed: " \o calls[i].thrown.message]

C4_Witness ==
    \E i \in CallIds :
        /\ calls[i].thrown = Err("TypeError", "fetch failed")
        /\ calls[i].requestError.message = "API request failed: fetch failed"

\* C5: when btoa, importKey or sign throws, request() rejects with
\* AccessGridError('Failed to generate signature: <cause>'), a message without
\* the prefix 'API request failed: ', and fetch is never called.
C5_SigningFailure ==
    \A i \in CallIds :
        calls[i].signCause # NoError
        => /\ RejectsWith(calls[i],
                [kind |-> "AccessGridError",
                 message |-> "Failed to generate signature: "
                             \o calls[i].signCause.message])
           /\ calls[i].sent = <<>>
           /\ calls[i].status = 0

C5_Witness ==
    \E i \in CallIds :
        /\ calls[i].signCause \in SignErrors
        /\ calls[i].pc = "failed"
        /\ calls[i].sent = <<>>

\* C6: whatever the transport does and whatever status and JSON value the
\* server returns, every error a public client operation rejects with is an
\* instance of AccessGridError.
C6_AllErrorsTyped ==
    \A i \in CallIds :
        calls[i].pc = "failed" /\ calls[i].op # "request"
        => IsAccessGridError(calls[i].error)

\* C7: the constructor throws 'Account ID is required' for a missing or empty
\* account id (also when the secret key is missing too), 'Secret Key is
\* required' for an account id with a missing or empty secret key, and makes
\* no client in either case; with both it makes a client whose two
\* sub-clients hold the same account id, secret key and base URL.
C7_Constructor ==
    ctorArgs.called
    => CASE ctorArgs.accountId \in {Undefined, <<>>} ->
                /\ ctorError = [kind |-> "Error", message |-> "Account ID is required"]
                /\ client = NoClient
         [] ctorArgs.accountId \notin {Undefined, <<>>}
            /\ ctorArgs.secretKey \in {Undefined, <<>>} ->
                /\ ctorError = [kind |-> "Error", message |-> "Secret Key is required"]
                /\ client = NoClient
         [] OTHER ->
                /\ ctorError = NoError
                /\ client.made
                /\ client.accessCards.accountId = ctorArgs.accountId
                /\ client.console.accountId = ctorArgs.accountId
                /\ client.accessCards.secretKey = ctorArgs.secretKey
                /\ client.console.secretKey = ctorArgs.secretKey
                /\ client.accessCards.baseUrl = client.console.baseUrl
                /\ client.accessCards.baseUrl # Undefined

C7_Witness ==
    /\ ctorArgs.called
    /\ ctorArgs.accountId = <<>> /\ ctorArgs.secretKey = Undefined
    /\ ctorError.message = "Account ID is required"
    /\ ~client.made

\* the caller's options.headers have none of the four mandatory names
NoMandatoryOverride(c) == \A h \in MandatoryHeaders : c.callerHeaders[h] = <<"<absent>">>

\* C8: in every request handed to fetch the headers object has the keys
\* Content-Type, X-ACCT-ID, X-PAYLOAD-SIG and User-Agent, whatever the caller
\* supplies; when the caller supplies none of these four, Content-Type is
\* 'application/json', X-ACCT-ID is the client's account id and X-PAYLOAD-SIG
\* is the signature made from the call's signable payload.
C8_MandatoryHeaders ==
    \A i \in CallIds : \A k \in 1..Len(calls[i].sent) :
        LET c == calls[i]
            headers == c.sent[k].headers
        IN /\ \A h \in MandatoryHeaders : headers[h] # <<"<absent>">>
           /\ NoMandatoryOverride(c)
              => /\ headers["Content-Type"] = <<"application/json">>
                 /\ headers["X-ACCT-ID"] = ctorArgs.accountId
                 /\ headers["X-PAYLOAD-SIG"] = c.signature
                 /\ c.signature # <<>>
                 /\ c.signedData = <<"base64(">> \o c.sigPayload \o <<")">>
                 /\ c.keyData = ctorArgs.secretKey

C8_Witness ==
    \E i \in CallIds :
        /\ Len(calls[i].sent) = 1
        /\ calls[i].callerHeaders["X-Request-Id"] = <<"r1">>
        /\ calls[i].sent[1].headers["X-Request-Id"] = <<"r1">>
        /\ calls[i].sent[1].headers["X-PAYLOAD-SIG"] = calls[i].signature

\* the call has a body with at least one key
NonEmptyBody(c) == c.body.present /\ Len(c.body.entries) > 0

\* the atom sig_payload occurs in no URL the call handed to fetch
NoSigPayloadSent(c) ==
    \A k \in 1..Len(c.sent) :
        /\ c.sent[k].url = c.url
        /\ \A j \in 1..Len(c.sent[k].url) : c.sent[k].url[j] # "sig_payload"

\* the payload signed is the JSON text of the body, no resource id is derived
\* and no sig_payload parameter is appended
SignsBody(c) ==
    /\ c.sigPayload = JSONStringify(c.body.entries)
    /\ c.pc \notin {"importKey", "failed"} => c.signedData = Btoa(c.sigPayload)
    /\ c.resourceId = Null
    /\ NoSigPayloadSent(c)

\* C9 as stated: for every request with a non-empty body, whatever its
\* method, the payload signed is the JSON serialization of the body, no
\* resource id is derived and no sig_payload parameter is appended.
C9_Original ==
    \A i \in CallIds :
        calls[i].pc # "idle" /\ NonEmptyBody(calls[i]) => SignsBody(calls[i])

\* C9 amended: for every request with a non-empty body whose method is not
\* GET (POST, PUT, PATCH, DELETE), the payload signed is the JSON
\* serialization of the body, no resource id is derived and no sig_payload
\* parameter is appended.
C9_BodySigned ==
    \A i \in CallIds :
        calls[i].pc # "idle" /\ NonEmptyBody(calls[i]) /\ calls[i].method # "GET"
        => SignsBody(calls[i])

C9_Witness ==
    \E i \in CallIds :
        /\ calls[i].method = "POST" /\ NonEmptyBody(calls[i])
        /\ calls[i].path = <<"key-cards", "/", "c1">>
        /\ Len(calls[i].sent) = 1
        /\ calls[i].sigPayload = <<"{", Q, "full_name", Q, ":", Q, "Ann", Q, "}">>

\* the segments of a path: the maximal runs of atoms other than "/", as
\* pairs of first and last position
Runs(path) ==
    {r \in (1..Len(path)) \X (1..Len(path)) :
        /\ r[1] <= r[2]
        /\ \A k \in r[1]..r[2] : path[k] # "/"
        /\ r[1] = 1 \/ path[r[1] - 1] = "/"
        /\ r[2] = Len(path) \/ path[r[2] + 1] = "/"}

\* the n-th segment from the end
RunFromEnd(path, n) ==
    LET r == CHOOSE r \in Runs(path) :
                 Cardinality({q \in Runs(path) : q[1] > r[1]}) = n - 1
    IN SubSeq(path, r[1], r[2])

\* C10: for every GET and every POST without a body the resource id is the
\* second-to-last segment of the path when the last one is suspend, resume,
\* unlink or delete and there are two segments or more, the last segment when
\* there are two or more and the last is no such word, and null with fewer
\* than two; then the payload signed is '{}' and no sig_payload is appended.
C10_ResourceId ==
    \A i \in CallIds :
        LET c == calls[i]
            n == Cardinality(Runs(c.path))
        IN c.pc # "idle" /\ (c.method = "GET" \/ (c.method = "POST" /\ ~c.body.present))
           => IF n >= 2
              THEN IF RunFromEnd(c.path, 1) \in
                        {<<"suspend">>, <<"resume">>, <<"unlink">>, <<"delete">>}
                   THEN c.resourceId = RunFromEnd(c.path, 2)
                   ELSE c.resourceId = RunFromEnd(c.path, 1)
              ELSE /\ c.resourceId = Null
                   /\ c.sigPayload = <<"{", "}">>
                   /\ NoSigPayloadSent(c)

C10_Witness ==
    \E i \in CallIds :
        /\ calls[i].method = "POST" /\ ~calls[i].body.present
        /\ calls[i].path = <<"c1", "/", "suspend">>
        /\ calls[i].resourceId = <<"c1">>
        /\ Len(calls[i].sent) = 1

C10_WitnessNull ==
    \E i \in CallIds :
        /\ calls[i].method = "GET"
        /\ calls[i].path = <<"/", "key-cards", "/">>
        /\ calls[i].resourceId = Null
        /\ Len(calls[i].sent) = 1

\* the id the path yields: the second-to-last segment when the last one is an
\* action word, else the last one, and null with fewer than two segments
PathId(path) ==
    IF Cardinality(Runs(path)) >= 2
    THEN IF RunFromEnd(path, 1) \in
              {<<"suspend">>, <<"resume">>, <<"unlink">>, <<"delete">>}
         THEN RunFromEnd(path, 2)
         ELSE RunFromEnd(path, 1)
    ELSE <<"<null>">>

IdObject(id) == <<"{", Q, "id", Q, ":", Q>> \o id \o <<Q, "}">>

\* C11: for every GET, POST, PUT and PATCH whose body is absent or an empty
\* mapping the payload signed is {"id": <resourceId>} when the path yields a
\* resource id and '{}' otherwise, and the payload signed for any request is
\* never the empty string.
C11_BodilessPayload ==
    \A i \in CallIds :
        LET c == calls[i]
        IN c.pc # "idle"
           => /\ c.sigPayload # <<>>
              /\ c.method \in {"GET", "POST", "PUT", "PATCH"}
                 /\ (~c.body.present \/ Len(c.body.entries) = 0)
                 => c.sigPayload = IF PathId(c.path) # <<"<null>">>
                                   THEN IdObject(PathId(c.path))
                                   ELSE <<"{", "}">>

ManageOps == {"suspend", "resume", "unlink", "delete"}

\* the request a manage operation is said to issue for card id t: a POST to
\* <baseUrl>/v1/key-cards/t/<action>?sig_payload=<encoded {"id":"t"}> with an
\* X-PAYLOAD-SIG header, the payload signed being {"id":"t"}
IsManageRequest(c, r) ==
    /\ r.method = "POST"
    /\ r.url = client.accessCards.baseUrl
               \o <<"/", "v1", "/", "key-cards", "/">> \o c.target \o <<"/", c.op>>
               \o <<"?", "sig_payload", "=", "%7B", "%22", "id", "%22", "%3A", "%22">>
               \o c.target \o <<"%22", "%7D">>
    /\ r.headers["X-PAYLOAD-SIG"] # <<"<absent>">>
    /\ r.headers["X-PAYLOAD-SIG"] = c.signature
    /\ c.sigPayload = IdObject(c.target)
    /\ c.signedData = <<"base64(">> \o IdObject(c.target) \o <<")">>

\* C12 as stated: for every card id, suspend, resume, unlink and delete issue
\* exactly one HTTP request, a POST to <baseUrl>/v1/key-cards/c/<action> with
\* an X-PAYLOAD-SIG header and sig_payload=<encoded {"id":"c"}>, the payload
\* signed being {"id":"c"}.
C12_Original ==
    \A i \in CallIds :
        calls[i].op \in ManageOps /\ Ended(calls[i])
        => /\ Len(calls[i].sent) = 1
           /\ IsManageRequest(calls[i], calls[i].sent[1])

\* a card id that is one path segment: not empty and without '/' or '?'
PlainId(t) == t # <<>> /\ \A k \in 1..Len(t) : t[k] \notin {"/", "?"}

\* C12 amended: for every card id that is not empty and holds no '/' or '?',
\* suspend, resume, unlink and delete issue at most one HTTP request: none
\* when signing fails, and exactly one once the signature is computed, a POST
\* to <baseUrl>/v1/key-cards/c/<action> with an X-PAYLOAD-SIG header and
\* sig_payload=<encoded {"id":"c"}>, the payload signed being {"id":"c"}.
C12_ManageRequest ==
    \A i \in CallIds :
        LET c == calls[i]
        IN c.op \in ManageOps /\ PlainId(c.target)
           => /\ Len(c.sent) <= 1
              /\ c.sigPayload = IdObject(c.target)
              /\ c.signCause # NoError => c.sent = <<>>
              /\ c.signature # <<>>
                 => Len(c.sent) = 1 /\ IsManageRequest(c, c.sent[1])
              /\ Ended(c) /\ c.signCause = NoError => Len(c.sent) = 1

C12_Witness ==
    \E i \in CallIds :
        /\ calls[i].op = "suspend" /\ calls[i].target = <<"c1">>
        /\ calls[i].pc = "done"
        /\ Len(calls[i].sent) = 1
        /\ IsManageRequest(calls[i], calls[i].sent[1])

\* C13: for every request made without a body (every GET, and every POST, PUT
\* or PATCH whose body is absent, suspend, resume, unlink and delete
\* included), the payload handed to the transport is empty or omitted.
C13_NoBodyTransmitted ==
    \A i \in CallIds :
        LET c == calls[i]
        IN c.method \in {"GET", "POST", "PUT", "PATCH"} /\ ~c.body.present
           => \A k \in 1..Len(c.sent) :
                 c.sent[k].body = Undefined \/ c.sent[k].body = <<>>

BodilessOps == {"list", "readTemplate", "getEventLogs"} \cup ManageOps

\* C14: for every bodiless request issued by list, readTemplate,
\* getEventLogs, suspend, resume, unlink or delete with a well-formed
\* identifier, the id placed in the signed payload and in sig_payload is the
\* card or template identifier the caller passed, never a path word or
\* query-string text.
C14_TargetedId ==
    \A i \in CallIds :
        LET c == calls[i]
        IN c.op \in BodilessOps /\ PlainId(c.target)
           => /\ c.resourceId = c.target
              /\ c.sigPayload = IdObject(c.target)
              /\ \A k \in 1..Len(c.sent) :
                    c.sent[k].url = c.url
                       \o <<(IF Includes(c.url, "?") THEN "&" ELSE "?"),
                            "sig_payload", "=">>
                       \o encodeURIComponent(IdObject(c.target))

EndsWithSlash(s) == Len(s) > 0 /\ s[Len(s)] = "/"

StartsWith(s, prefix) ==
    Len(s) >= Len(prefix) /\ SubSeq(s, 1, Len(prefix)) = prefix

\* every request sent so far went to the stored base URL followed by its path
UrlsFromBase ==
    \A i \in CallIds :
        calls[i].pc # "idle"
        => /\ calls[i].url = Api(calls[i].api).baseUrl \o calls[i].path
           /\ \A k \in 1..Len(calls[i].sent) :
                 StartsWith(calls[i].sent[k].url,
                            Api(calls[i].api).baseUrl \o calls[i].path)

\* C15 as stated: for every base URL supplied at construction, the stored
\* base URL does not end with '/', and the URL of every request is the stored
\* base URL immediately followed by the path.
C15_Original ==
    client.made
    => /\ ~EndsWithSlash(client.accessCards.baseUrl)
       /\ ~EndsWithSlash(client.console.baseUrl)
       /\ UrlsFromBase

\* the base URL the constructor was given, less one trailing '/'
SuppliedLessOneSlash ==
    LET b == IF ctorArgs.baseUrl = <<"<undefined>">>
             THEN <<"https:", "/", "/", "api.accessgrid.com">>
             ELSE ctorArgs.baseUrl
    IN IF EndsWithSlash(b) THEN SubSeq(b, 1, Len(b) - 1) ELSE b

\* C15 amended: the base URL stored in the client is the supplied one with
\* one trailing '/' removed (it does not end with '/' when the supplied URL
\* ends with at most one), it stays what the constructor stored whatever
\* calls are made, and the URL of every request is the stored base URL
\* immediately followed by the path.
C15_BaseUrl ==
    client.made
    => /\ client.accessCards.baseUrl = SuppliedLessOneSlash
       /\ client.console.baseUrl = SuppliedLessOneSlash
       /\ UrlsFromBase

C15_Witness ==
    /\ client.made
    /\ ctorArgs.baseUrl = <<"https:", "/", "/", "custom.api.com", "/">>
    /\ client.accessCards.baseUrl = <<"https:", "/", "/", "custom.api.com">>
    /\ \E i \in CallIds :
          /\ calls[i].pc = "done"
          /\ Len(calls[i].sent) = 1
          /\ StartsWith(calls[i].sent[1].url,
                        <<"https:", "/", "/", "custom.api.com", "/", "v1">>)

LowerHex == {"0", "1", "2", "3", "4", "5", "6", "7",
             "8", "9", "a", "b", "c", "d", "e", "f"}

\* the value of one lowercase hexadecimal character
HexValue(ch) ==
    CASE ch = "0" -> 0 [] ch = "1" -> 1 [] ch = "2" -> 2 [] ch = "3" -> 3
      [] ch = "4" -> 4 [] ch = "5" -> 5 [] ch = "6" -> 6 [] ch = "7" -> 7
      [] ch = "8" -> 8 [] ch = "9" -> 9 [] ch = "a" -> 10 [] ch = "b" -> 11
      [] ch = "c" -> 12 [] ch = "d" -> 13 [] ch = "e" -> 14 [] ch = "f" -> 15

\* the digest a call's signature was rendered from
DigestOf(c) == HMAC(c.keyData, c.signedData)

\* C16: the signature _generateSignature returns is the digest rendered as
\* lowercase hexadecimal, exactly two zero-padded characters per byte, in
\* byte order: for a digest of n bytes it has length 2n and only characters
\* 0-9a-f, and characters 2k-1 and 2k are the high and low digit of byte k.
C16_HexSignature ==
    \A i \in CallIds :
        LET c == calls[i]
            d == DigestOf(c)
        IN c.signature # <<>>
           => /\ Len(d) = DigestLen
              /\ Len(c.signature) = 2 * Len(d)
              /\ \A k \in 1..Len(c.signature) : c.signature[k] \in LowerHex
              /\ \A k \in 1..Len(d) :
                    16 * HexValue(c.signature[2 * k - 1])
                    + HexValue(c.signature[2 * k]) = d[k]

\* a signature whose digest has a byte below 16, rendered with a leading zero
C16_Witness ==
    \E i \in CallIds :
        /\ calls[i].signature # <<>>
        /\ \E k \in 1..DigestLen :
              /\ DigestOf(calls[i])[k] < 16
              /\ calls[i].signature[2 * k - 1] = "0"
        /\ \E k \in 1..DigestLen : DigestOf(calls[i])[k] >= 16

\* URL decoding of one atom, as the receiving server does it
DecodeAtom(a) ==
    CASE a = "%7B" -> "{"
      [] a = "%7D" -> "}"
      [] a = "%22" -> "\""
      [] a = "%3A" -> ":"
      [] a = "%2C" -> ","
      [] a = "%2F" -> "/"
      [] a = "%3F" -> "?"
      [] a = "%3D" -> "="
      [] a = "%26" -> "&"
      [] a = "%5B" -> "["
      [] a = "%5D" -> "]"
      [] a = "%255B" -> "%5B"
      [] a = "%255D" -> "%5D"
      [] OTHER -> a

decodeURIComponent(s) == [k \in 1..Len(s) |-> DecodeAtom(s[k])]

\* what a sent URL holds after the call's own URL (base URL and path)
Appended(c, r) == SubSeq(r.url, Len(c.url) + 1, Len(r.url))

\* C17: sig_payload is appended to the outgoing URL if and only if a
\* resource id was derived and the request is a GET or a POST without body
\* (its body absent or empty); it is appended with '&' when the URL already
\* holds '?' and with '?' otherwise, the URL before it being left as it was;
\* and its URL-decoded value is exactly the string that was signed for that
\* request.
C17_SigPayloadParameter ==
    \A i \in CallIds :
        LET c == calls[i]
        IN \A k \in 1..Len(c.sent) :
              LET r == c.sent[k]
                  tail == Appended(c, r)
              IN /\ StartsWith(r.url, c.url)
                 /\ tail # <<>>
                    <=> /\ c.resourceId # <<"<null>">>
                        /\ \/ c.method = "GET"
                           \/ /\ c.method = "POST"
                              /\ ~c.body.present \/ c.body.entries = <<>>
                 /\ tail # <<>>
                    => /\ Len(tail) > 3
                       /\ tail[1] = (IF \E n \in 1..Len(c.url) : c.url[n] = "?"
                                     THEN "&" ELSE "?")
                       /\ tail[2] = "sig_payload"
                       /\ tail[3] = "="
                       /\ decodeURIComponent(SubSeq(tail, 4, Len(tail))) = c.sigPayload
                       /\ c.signedData = <<"base64(">> \o c.sigPayload \o <<")">>

\* request() returned a value / rejected with an error
RequestReturned(c) == c.requestResult # Json("none", FALSE, "", "absent")

RequestRejected(c) == c.requestError # Err("none", "")

\* C18: each call of request() signs before it sends, invokes the signer at
\* most once and the transport at most once (no request after a failed
\* signing), and ends in exactly one outcome: it returns the parsed JSON body
\* of a successful response unchanged, or it rejects with one error; never
\* both, and never a value for a response that is not 2xx.
C18_OneOutcome ==
    \A i \in CallIds :
        LET c == calls[i]
        IN /\ c.signerCalls <= 1
           /\ Len(c.sent) <= 1
           /\ c.sent # <<>>
              => /\ c.signerCalls = 1
                 /\ c.signature # <<>>
                 /\ c.signCause = Err("none", "")
           /\ c.signCause # Err("none", "") => c.sent = <<>> /\ RequestRejected(c)
           /\ ~Ended(c) => ~RequestReturned(c) /\ ~RequestRejected(c)
           /\ Ended(c) => (RequestReturned(c) <=> ~RequestRejected(c))
           /\ RequestReturned(c)
              => /\ Ended(c)
                 /\ c.status \in 200..299
                 /\ Len(c.sent) = 1
                 /\ c.data.kind # "none"
                 /\ c.requestResult = c.data

\* one call that returned the body of a 200 response, and the request it sent
C18_Witness ==
    \E i \in CallIds :
        /\ calls[i].pc = "done"
        /\ calls[i].status = 200
        /\ calls[i].signerCalls = 1
        /\ Len(calls[i].sent) = 1
        /\ calls[i].requestResult = calls[i].data
        /\ calls[i].data.kind = "object"

\* the client holds what the constructor was given: no call has changed it
ClientAsConstructed ==
    client.made
    => \A api \in {client.accessCards, client.console} :
          /\ api.accountId = ctorArgs.accountId
          /\ api.secretKey = ctorArgs.secretKey
          /\ api.baseUrl = SuppliedLessOneSlash

\* the signature of the call's own signable payload under the client's key
OwnSignature(c) ==
    ToHex(HMAC(ctorArgs.secretKey, <<"base64(">> \o c.sigPayload \o <<")">>))

\* request r carries the client's account id and the call's own signature
CarriesOwnCredentials(c, r) ==
    /\ r.headers["X-ACCT-ID"] = ctorArgs.accountId
    /\ r.headers["X-PAYLOAD-SIG"] = OwnSignature(c)

\* request r was built from the call's own method, path and payload
BuiltFromOwn(c, r) ==
    /\ c.method = (IF c.rawMethod = "" THEN "GET" ELSE c.rawMethod)
    /\ c.sigPayload = Payload(c.method, c.body, ResourceId(c.method, c.path, c.body))
    /\ c.signature = OwnSignature(c)
    /\ r.method = c.method
    /\ StartsWith(r.url, SuppliedLessOneSlash \o c.path)
    /\ r.body = (IF c.method = "GET" THEN <<"<undefined>">> ELSE c.sigPayload)

\* the outcome of an ended call is the one its own responses give it when it
\* runs alone: the signing failure, the transport or parse failure, the
\* status error or the body of its own response
OwnOutcome(c) ==
    Ended(c)
    => /\ c.signCause # Err("none", "")
          => /\ c.thrown = Err("AccessGridError",
                               "Failed to generate signature: " \o c.signCause.message)
             /\ c.sent = <<>>
       /\ c.signCause = Err("none", "") /\ c.status # 0 /\ c.data.kind # "none"
          => IF c.status \in 200..299
             THEN c.requestResult = c.data /\ c.thrown = Err("none", "")
             ELSE c.thrown = StatusError(c.status, c.data)
       /\ c.thrown # Err("none", "")
          => /\ c.pc = "failed"
             /\ c.error = CatchRequest(c.thrown)
             /\ c.result = [kind |-> "none", data |-> Json("none", FALSE, "", "absent")]
       /\ c.thrown = Err("none", "") /\ c.pc = "done"
          => /\ c.result = [kind |-> c.op, data |-> c.data]
             /\ c.error = Err("none", "")

\* C19 as stated: under any interleaving of concurrent calls no call changes
\* accountId, secretKey or baseUrl, every request issued carries the X-ACCT-ID
\* of the client and the X-PAYLOAD-SIG computed from its own signable
\* payload, and each call's outcome is the one it has when run alone.
C19_Original ==
    /\ ClientAsConstructed
    /\ \A i \in CallIds :
          /\ \A k \in 1..Len(calls[i].sent) :
                /\ CarriesOwnCredentials(calls[i], calls[i].sent[k])
                /\ BuiltFromOwn(calls[i], calls[i].sent[k])
          /\ OwnOutcome(calls[i])

\* C19 amended: under any interleaving of concurrent calls no call changes
\* accountId, secretKey or baseUrl; every request issued is built from its
\* own call's method, path and payload and, when its caller supplies no
\* X-ACCT-ID or X-PAYLOAD-SIG header of their own, carries the X-ACCT-ID of
\* the client and the X-PAYLOAD-SIG computed from its own signable payload;
\* each call's outcome is the one it has when run alone.
C19_Isolated ==
    /\ ClientAsConstructed
    /\ \A i \in CallIds :
          /\ \A k \in 1..Len(calls[i].sent) :
                /\ /\ calls[i].callerHeaders["X-ACCT-ID"] = <<"<absent>">>
                   /\ calls[i].callerHeaders["X-PAYLOAD-SIG"] = <<"<absent>">>
                   => CarriesOwnCredentials(calls[i], calls[i].sent[k])
                /\ BuiltFromOwn(calls[i], calls[i].sent[k])
          /\ OwnOutcome(calls[i])

\* two calls in flight at once, each with its request sent, signing
\* different payloads
C19_Witness ==
    /\ calls[1].pc = "json" /\ calls[2].pc = "fetch"
    /\ calls[1].op = "suspend" /\ calls[2].op = "provision"
    /\ Len(calls[1].sent) = 1 /\ Len(calls[2].sent) = 1
    /\ calls[1].sigPayload # calls[2].sigPayload
    /\ calls[1].sent[1].headers["X-PAYLOAD-SIG"]
       # calls[2].sent[1].headers["X-PAYLOAD-SIG"]

\* a GET, or a POST whose body is absent or empty
GetOrBodilessPost(c) ==
    /\ c.pc # "idle"
    /\ \/ c.method = "GET"
       \/ c.method = "POST" /\ (~c.body.present \/ c.body.entries = <<>>)

\* C20: for a fixed secret key the signable payload of a GET or bodiless POST
\* is an injective function of the derived resource id alone: two such
\* requests with different ids have different signable payloads, and two
\* with the same id have the same signable payload, hence the same
\* signature, whatever their method, action suffix or other path segments.
C20_PayloadOfIdAlone ==
    \A i, j \in CallIds :
        GetOrBodilessPost(calls[i]) /\ GetOrBodilessPost(calls[j])
        => /\ calls[i].resourceId = calls[j].resourceId
              <=> calls[i].sigPayload = calls[j].sigPayload
           /\ /\ calls[i].resourceId = calls[j].resourceId
              /\ calls[i].signature # <<>>
              /\ calls[j].signature # <<>>
              => calls[i].signature = calls[j].signature

====
